---- MODULE Spec2Model ----
(***************************************************************************)
(* The per-evaluation scheduling context of scheduler/context.go:          *)
(* EvalContext (state, plan, metrics, caches, lazily created eligibility   *)
(* tracker) and EvalEligibility (feasibility per computed node class at    *)
(* job and task-group scope, with the escaped flags).                      *)
(*                                                                         *)
(* Operations that assign a field are actions.  The queries of the tracker *)
(* (JobStatus, TaskGroupStatus, HasEscaped, GetClasses) and the accessors  *)
(* State, Plan and Metrics assign nothing (JobStatus only prints); they    *)
(* are operators over the current state, so that a statement about what a  *)
(* query returns is checked for every argument in every reachable state.   *)
(***************************************************************************)
EXTENDS Integers, Sequences, FiniteSets, Bags, TLC

VARIABLES
    state,                  \* EvalContext.state: the cluster state handle
    plan,                   \* EvalContext.plan: NodeUpdate and NodeAllocation
    metrics,                \* EvalContext.metrics: the current AllocMetric
    reCache,                \* EvalCache.reCache
    constraintCache,        \* EvalCache.constraintCache
    eligibility,            \* EvalContext.eligibility: Nil or the tracker's reference
    nextRef,                \* the next fresh reference of the allocator
    job,                    \* EvalEligibility.job: class -> feasibility
    jobEscaped,             \* EvalEligibility.jobEscaped
    taskGroups,             \* EvalEligibility.taskGroups: group -> class -> feasibility
    tgEscapedConstraints,   \* EvalEligibility.tgEscapedConstraints: group -> BOOLEAN
    jobCalls,               \* history: class -> argument of the latest SetJobEligibility
    tgCalls,                \* history: <<group, class>> -> argument of the latest SetTaskGroupEligibility
    last,                   \* the latest call: its name, arguments and what it returned
    peer                    \* a second EvalContext on the same allocator: its
                            \* eligibility reference and its reCache

ctx == <<state, plan, metrics, reCache, constraintCache, eligibility, nextRef>>
tracker == <<job, jobEscaped, taskGroups, tgEscapedConstraints>>
history == <<jobCalls, tgCalls>>
vars == <<state, plan, metrics, reCache, constraintCache, eligibility, nextRef,
          job, jobEscaped, taskGroups, tgEscapedConstraints, jobCalls, tgCalls, last,
          peer>>

----------------------------------------------------------------------------
(* Bounds *)

\* computed node classes are 0..MaxClass (uint64 in the source; 0 is "no class")
MaxClass == 2
\* at most this many (scope, class) verdicts are recorded in one tracker
MaxEntries == 2
\* references the allocator hands out
MaxRefs == 5

Classes == 0..MaxClass
GroupNames == {"web", "db"}

----------------------------------------------------------------------------
(* ComputedClassFeasibility, and the nil reference *)

EvalComputedClassUnknown == 0
EvalComputedClassIneligible == 1
EvalComputedClassEligible == 2
EvalComputedClassEscaped == 3

Nil == 0

----------------------------------------------------------------------------
(* Go maps: a function whose domain is the set of keys present *)

EmptyMap == [k \in {} |-> 0]

MapPut(m, k, v) == [x \in (DOMAIN m) \cup {k} |-> IF x = k THEN v ELSE m[x]]

\* all the orders in which a range loop may visit the keys in S
Orderings(S) ==
    {s \in [1..Cardinality(S) -> S] : \A i, j \in 1..Cardinality(S) : i # j => s[i] # s[j]}

----------------------------------------------------------------------------
(* Jobs: structs.Job as SetJob reads it *)

\* a constraint is named by its target; a target under "unique." is not part
\* of the computed node class
Escapes(c) == c = "${node.unique.id}"

\* structs.EscapedConstraints: the sub-list of the constraints that escape
EscapedConstraints(constraints) == SelectSeq(constraints, Escapes)

ConstraintLists == {<<"${attr.kernel.name}">>,
                    <<"${attr.kernel.name}", "${node.unique.id}">>}

\* a group that escapes by its own constraint, one that escapes by a task's,
\* and one that does not escape
TaskGroupsOf(name) ==
    {[Name |-> name, Constraints |-> <<"${node.unique.id}">>, Tasks |-> <<>>],
     [Name |-> name, Constraints |-> <<"${attr.kernel.name}">>,
      Tasks |-> << [Constraints |-> <<"${attr.kernel.name}">>],
                   [Constraints |-> <<"${node.unique.id}">>] >>],
     [Name |-> name, Constraints |-> <<>>,
      Tasks |-> << [Constraints |-> <<"${attr.kernel.name}">>] >>]}

TaskGroupLists ==
    {<<>>} \cup {<<g>> : g \in TaskGroupsOf("web")}
           \cup {<<g, h>> : g \in TaskGroupsOf("web"), h \in TaskGroupsOf("db")}

Jobs == {[Constraints |-> cs, TaskGroups |-> tgs] :
            cs \in ConstraintLists, tgs \in TaskGroupLists}

----------------------------------------------------------------------------
(* EvalEligibility *)

\* NewEvalEligibility: three empty maps, jobEscaped false
NewEvalEligibility ==
    /\ job' = EmptyMap
    /\ jobEscaped' = FALSE
    /\ taskGroups' = EmptyMap
    /\ tgEscapedConstraints' = EmptyMap

\* the inner loop of SetJob: the group's constraints, then each task's appended
RECURSIVE AppendTaskConstraints(_, _)
AppendTaskConstraints(constraints, tasks) ==
    IF tasks = <<>> THEN constraints
    ELSE AppendTaskConstraints(constraints \o Head(tasks).Constraints, Tail(tasks))

\* a faulty variant: the tasks' constraints are left out of the group's list
RECURSIVE SetJobTaskGroups_NoTasks(_, _)
SetJobTaskGroups_NoTasks(escaped, tgs) ==
    IF tgs = <<>> THEN escaped
    ELSE LET tg == Head(tgs)
         IN  SetJobTaskGroups_NoTasks(
                 MapPut(escaped, tg.Name, Len(EscapedConstraints(tg.Constraints)) # 0),
                 Tail(tgs))

\* the outer loop of SetJob over job.TaskGroups, writing tgEscapedConstraints
RECURSIVE SetJobTaskGroups(_, _)
SetJobTaskGroups(escaped, tgs) ==
    IF tgs = <<>> THEN escaped
    ELSE LET tg == Head(tgs)
             constraints == AppendTaskConstraints(tg.Constraints, tg.Tasks)
         IN  SetJobTaskGroups(
                 MapPut(escaped, tg.Name, Len(EscapedConstraints(constraints)) # 0),
                 Tail(tgs))

\* a faulty variant: the task-group flags are started over on every call
SetJob_ClearsFlags(j) ==
    /\ eligibility # Nil
    /\ jobEscaped' = (Len(EscapedConstraints(j.Constraints)) # 0)
    /\ tgEscapedConstraints' = SetJobTaskGroups(EmptyMap, j.TaskGroups)
    /\ last' = [op |-> "SetJob", job |-> j,
                fresh |-> /\ job = EmptyMap /\ taskGroups = EmptyMap
                          /\ ~jobEscaped /\ tgEscapedConstraints = EmptyMap]
    /\ UNCHANGED <<job, taskGroups, history, ctx, peer>>

SetJob(j) ==
    /\ eligibility # Nil
    /\ jobEscaped' = (Len(EscapedConstraints(j.Constraints)) # 0)
    /\ tgEscapedConstraints' = SetJobTaskGroups(tgEscapedConstraints, j.TaskGroups)
    /\ last' = [op |-> "SetJob", job |-> j,
                fresh |-> /\ job = EmptyMap /\ taskGroups = EmptyMap
                          /\ ~jobEscaped /\ tgEscapedConstraints = EmptyMap]
    /\ UNCHANGED <<job, taskGroups, history, ctx, peer>>

\* a faulty variant: only the job's flag is looked at
HasEscaped_JobOnly == jobEscaped

HasEscaped ==
    \/ jobEscaped
    \/ \E tg \in DOMAIN tgEscapedConstraints : tgEscapedConstraints[tg]

\* a faulty variant: class 0 is looked up like any other class
JobStatus_NoZeroCheck(class) ==
    IF jobEscaped THEN EvalComputedClassEscaped
    ELSE IF class \in DOMAIN job THEN job[class]
    ELSE EvalComputedClassUnknown

\* a faulty variant: a recorded verdict is returned before the escaped flag is looked at
JobStatus_MapFirst(class) ==
    IF class = 0 THEN EvalComputedClassEscaped
    ELSE IF class \in DOMAIN job THEN job[class]
    ELSE IF jobEscaped THEN EvalComputedClassEscaped
    ELSE EvalComputedClassUnknown

JobStatus(class) ==
    IF jobEscaped \/ class = 0 THEN EvalComputedClassEscaped
    ELSE IF class \in DOMAIN job THEN job[class]
    ELSE EvalComputedClassUnknown

\* the number of verdicts the tracker holds
Entries ==
    LET RECURSIVE Sum(_)
        Sum(gs) == IF gs = {} THEN 0
                   ELSE LET g == CHOOSE x \in gs : TRUE
                        IN  Cardinality(DOMAIN taskGroups[g]) + Sum(gs \ {g})
    IN  Cardinality(DOMAIN job) + Sum(DOMAIN taskGroups)

\* a faulty variant: the first verdict of a class is kept, a later call does not overwrite
\* a faulty variant: an ineligible verdict is stored as the zero value
SetJobEligibility_ZeroForFalse(eligible, class) ==
    /\ eligibility # Nil
    /\ job' = MapPut(job, class, IF eligible THEN EvalComputedClassEligible
                                 ELSE EvalComputedClassUnknown)
    /\ jobCalls' = MapPut(jobCalls, class, eligible)
    /\ last' = [op |-> "SetJobEligibility", eligible |-> eligible, class |-> class,
                replaced |-> class \in DOMAIN job /\ job'[class] # job[class]]
    /\ UNCHANGED <<jobEscaped, taskGroups, tgEscapedConstraints, tgCalls, ctx, peer>>

SetJobEligibility_KeepFirst(eligible, class) ==
    /\ eligibility # Nil
    /\ job' = IF class \in DOMAIN job THEN job
              ELSE MapPut(job, class, IF eligible THEN EvalComputedClassEligible
                                      ELSE EvalComputedClassIneligible)
    /\ jobCalls' = MapPut(jobCalls, class, eligible)
    /\ last' = [op |-> "SetJobEligibility", eligible |-> eligible, class |-> class,
                replaced |-> FALSE]
    /\ UNCHANGED <<jobEscaped, taskGroups, tgEscapedConstraints, tgCalls, ctx, peer>>

SetJobEligibility(eligible, class) ==
    /\ eligibility # Nil
    /\ job' = MapPut(job, class, IF eligible THEN EvalComputedClassEligible
                                 ELSE EvalComputedClassIneligible)
    /\ jobCalls' = MapPut(jobCalls, class, eligible)
    /\ last' = [op |-> "SetJobEligibility", eligible |-> eligible, class |-> class,
                replaced |-> class \in DOMAIN job /\ job'[class] # job[class]]
    /\ UNCHANGED <<jobEscaped, taskGroups, tgEscapedConstraints, tgCalls, ctx, peer>>

TaskGroupStatus(tg, class) ==
    IF class = 0 THEN EvalComputedClassEscaped
    ELSE IF tg \in DOMAIN tgEscapedConstraints /\ tgEscapedConstraints[tg]
         THEN EvalComputedClassEscaped
    ELSE IF tg \in DOMAIN taskGroups /\ class \in DOMAIN taskGroups[tg]
         THEN taskGroups[tg][class]
    ELSE EvalComputedClassUnknown

\* a faulty variant: the group's inner map is made anew on every call
SetTaskGroupEligibility_NewMap(eligible, tg, class) ==
    LET elig == IF eligible THEN EvalComputedClassEligible
                ELSE EvalComputedClassIneligible
    IN  /\ eligibility # Nil
        /\ taskGroups' = MapPut(taskGroups, tg, MapPut(EmptyMap, class, elig))
        /\ tgCalls' = MapPut(tgCalls, <<tg, class>>, eligible)
        /\ last' = [op |-> "SetTaskGroupEligibility", eligible |-> eligible,
                    tg |-> tg, class |-> class,
                    replaced |-> /\ tg \in DOMAIN taskGroups
                                 /\ class \in DOMAIN taskGroups[tg]
                                 /\ taskGroups[tg][class] # elig]
        /\ UNCHANGED <<job, jobEscaped, tgEscapedConstraints, jobCalls, ctx, peer>>

\* a faulty variant: the class is keyed across scopes, the verdict lands in the job's map too
SetTaskGroupEligibility_SharedClass(eligible, tg, class) ==
    LET elig == IF eligible THEN EvalComputedClassEligible
                ELSE EvalComputedClassIneligible
    IN  /\ eligibility # Nil
        /\ taskGroups' =
              IF tg \in DOMAIN taskGroups
              THEN [taskGroups EXCEPT ![tg] = MapPut(@, class, elig)]
              ELSE MapPut(taskGroups, tg, MapPut(EmptyMap, class, elig))
        /\ job' = MapPut(job, class, elig)
        /\ tgCalls' = MapPut(tgCalls, <<tg, class>>, eligible)
        /\ last' = [op |-> "SetTaskGroupEligibility", eligible |-> eligible,
                    tg |-> tg, class |-> class,
                    replaced |-> /\ tg \in DOMAIN taskGroups
                                 /\ class \in DOMAIN taskGroups[tg]
                                 /\ taskGroups[tg][class] # elig]
        /\ UNCHANGED <<jobEscaped, tgEscapedConstraints, jobCalls, ctx, peer>>

SetTaskGroupEligibility(eligible, tg, class) ==
    LET elig == IF eligible THEN EvalComputedClassEligible
                ELSE EvalComputedClassIneligible
    IN  /\ eligibility # Nil
        /\ taskGroups' =
              IF tg \in DOMAIN taskGroups
              THEN [taskGroups EXCEPT ![tg] = MapPut(@, class, elig)]
              ELSE MapPut(taskGroups, tg, MapPut(EmptyMap, class, elig))
        /\ tgCalls' = MapPut(tgCalls, <<tg, class>>, eligible)
        /\ last' = [op |-> "SetTaskGroupEligibility", eligible |-> eligible,
                    tg |-> tg, class |-> class,
                    replaced |-> /\ tg \in DOMAIN taskGroups
                                 /\ class \in DOMAIN taskGroups[tg]
                                 /\ taskGroups[tg][class] # elig]
        /\ UNCHANGED <<job, jobEscaped, tgEscapedConstraints, jobCalls, ctx, peer>>

\* the (class, feasibility) pairs of one map in each order a range loop may
\* visit them
EntryWalks(m) ==
    {[i \in 1..Len(o) |-> <<o[i], m[o[i]]>>] : o \in Orderings(DOMAIN m)}

\* the loop over taskGroups, the groups taken in the order gord
RECURSIVE WalkGroups(_)
WalkGroups(gord) ==
    IF gord = <<>> THEN {<<>>}
    ELSE {w \o rest : w \in EntryWalks(taskGroups[Head(gord)]),
                      rest \in WalkGroups(Tail(gord))}

\* what the switch appends to one of the two slices along a walk
ClassesWith(walk, feas) ==
    LET sel == SelectSeq(walk, LAMBDA e : e[2] = feas)
    IN  [i \in 1..Len(sel) |-> sel[i][1]]

\* a faulty variant: only the job's map is walked
GetClasses_JobOnly ==
    {[elig |-> ClassesWith(jw, EvalComputedClassEligible),
      inelig |-> ClassesWith(jw, EvalComputedClassIneligible)] :
        jw \in EntryWalks(job)}

\* a faulty variant: the two slices are returned in the other order
GetClasses_Swapped ==
    {[elig |-> ClassesWith(jw \o gw, EvalComputedClassIneligible),
      inelig |-> ClassesWith(jw \o gw, EvalComputedClassEligible)] :
        jw \in EntryWalks(job),
        gw \in UNION {WalkGroups(gord) : gord \in Orderings(DOMAIN taskGroups)}}

\* GetClasses: every pair of slices it may return (map iteration order is not
\* fixed): the job's entries first, then each task group's
GetClasses ==
    {[elig |-> ClassesWith(jw \o gw, EvalComputedClassEligible),
      inelig |-> ClassesWith(jw \o gw, EvalComputedClassIneligible)] :
        jw \in EntryWalks(job),
        gw \in UNION {WalkGroups(gord) : gord \in Orderings(DOMAIN taskGroups)}}

----------------------------------------------------------------------------
(* Cluster state, plan and metrics as the context reads them *)

\* at most this many entries in the plan's NodeUpdate and NodeAllocation together
MaxPlan == 2
\* the caller counts at most this many nodes into one metrics record
MaxMetric == 1

Nodes == {"n1", "n2"}
\* allocations the cluster state may hold, in the order a lookup lists them
ExistingIDs == <<"a1", "a2">>
AllocIDs == {"a1", "a2", "a3"}

Alloc(id, terminal) == [ID |-> id, Terminal |-> terminal]

\* Go slices: nil and empty are different values
NilSlice == [isNil |-> TRUE, elems |-> <<>>]
MkSlice(elems) == [isNil |-> FALSE, elems |-> elems]

\* append(s, xs...)
AppendSlice(s, xs) == IF xs = <<>> THEN s ELSE MkSlice(s.elems \o xs)

\* a cluster state: where each existing allocation is, and whether it is terminal
Placements == {[node |-> "none", terminal |-> FALSE]}
                \cup [node : Nodes, terminal : BOOLEAN]
States == [{ExistingIDs[i] : i \in 1..Len(ExistingIDs)} -> Placements]

NoError == "nil"
StateErrors == {"state: transaction aborted", "state: index not found"}

\* State.AllocsByNode: every outcome the lookup may have.  It lists each
\* allocation recorded against the node whatever its status, or fails.
AllocsByNode(s, nodeID) ==
    LET here(id) == s[id].node = nodeID
        ids == SelectSeq(ExistingIDs, here)
        allocs == [i \in 1..Len(ids) |-> Alloc(ids[i], s[ids[i]].terminal)]
    IN  {[allocs |-> MkSlice(allocs), err |-> NoError]}
          \cup (IF allocs = <<>> THEN {[allocs |-> NilSlice, err |-> NoError]} ELSE {})
          \cup {[allocs |-> NilSlice, err |-> e] : e \in StateErrors}

\* structs.FilterTerminalAllocs: drops the allocations in a terminal state
FilterTerminalAllocs(allocs) ==
    [allocs EXCEPT !.elems = SelectSeq(@, LAMBDA a : ~a.Terminal)]

\* structs.RemoveAllocs: drops the allocations that remove lists (by ID)
RemoveAllocs(allocs, remove) ==
    LET removeSet == {remove[i].ID : i \in 1..Len(remove)}
    IN  [allocs EXCEPT !.elems = SelectSeq(@, LAMBDA a : a.ID \notin removeSet)]

EmptyPlan == [NodeUpdate |-> [n \in Nodes |-> <<>>],
              NodeAllocation |-> [n \in Nodes |-> <<>>]]

PlanSize(p) ==
    LET RECURSIVE Sum(_)
        Sum(ns) == IF ns = {} THEN 0
                   ELSE LET n == CHOOSE x \in ns : TRUE
                        IN  Len(p.NodeUpdate[n]) + Len(p.NodeAllocation[n]) + Sum(ns \ {n})
    IN  Sum(Nodes)

\* new(structs.AllocMetric): every counter zero
NewAllocMetric == [NodesEvaluated |-> 0, NodesFiltered |-> 0]

NilCache == [ref |-> Nil, entries |-> EmptyMap]

----------------------------------------------------------------------------
(* EvalContext *)

\* NewEvalContext(s, p, log): state, plan and a fresh metrics record; the
\* caches and the tracker are nil
\* a context as NewEvalContext leaves it, seen through the two fields that
\* are followed for the second context
NewPeer == [eligibility |-> Nil, reCache |-> NilCache]

\* the last conjunct is a second call, which constructs the second context
NewEvalContext(s, p) ==
    /\ state = s
    /\ plan = p
    /\ metrics = NewAllocMetric
    /\ reCache = NilCache
    /\ constraintCache = NilCache
    /\ eligibility = Nil
    /\ nextRef = 1
    /\ job = EmptyMap
    /\ jobEscaped = FALSE
    /\ taskGroups = EmptyMap
    /\ tgEscapedConstraints = EmptyMap
    /\ jobCalls = EmptyMap
    /\ tgCalls = EmptyMap
    /\ last = [op |-> "NewEvalContext"]
    /\ peer = NewPeer

SetState(s) ==
    /\ state' = s
    /\ last' = [op |-> "SetState"]
    /\ UNCHANGED <<plan, metrics, reCache, constraintCache, eligibility, nextRef,
                   tracker, history, peer>>

\* a faulty variant: Reset starts everything over, the caches and the tracker too
Reset_Everything ==
    /\ metrics' = NewAllocMetric
    /\ reCache' = NilCache
    /\ constraintCache' = NilCache
    /\ eligibility' = Nil
    /\ last' = [op |-> "Reset", discarded |-> metrics]
    /\ UNCHANGED <<state, plan, nextRef, tracker, history, peer>>

Reset ==
    /\ metrics' = NewAllocMetric
    /\ last' = [op |-> "Reset", discarded |-> metrics]
    /\ UNCHANGED <<state, plan, reCache, constraintCache, eligibility, nextRef,
                   tracker, history, peer>>

\* a faulty variant: the terminal allocations are not filtered out
Proposed_NoFilter(allocs, nodeID) ==
    LET update == plan.NodeUpdate[nodeID]
        kept == IF Len(update) > 0 THEN RemoveAllocs(allocs, update)
                ELSE allocs
        proposed == AppendSlice(kept, plan.NodeAllocation[nodeID])
    IN  IF proposed.isNil THEN MkSlice(<<>>) ELSE proposed

\* a faulty variant: a nil result is returned as it is
Proposed_NoNilCheck(allocs, nodeID) ==
    LET existingAlloc == FilterTerminalAllocs(allocs)
        update == plan.NodeUpdate[nodeID]
        kept == IF Len(update) > 0 THEN RemoveAllocs(existingAlloc, update)
                ELSE existingAlloc
    IN  AppendSlice(kept, plan.NodeAllocation[nodeID])

\* lines 116-131 of ProposedAllocs: what it returns once the lookup gave allocs
Proposed(allocs, nodeID) ==
    LET existingAlloc == FilterTerminalAllocs(allocs)
        update == plan.NodeUpdate[nodeID]
        kept == IF Len(update) > 0 THEN RemoveAllocs(existingAlloc, update)
                ELSE existingAlloc
        proposed == AppendSlice(kept, plan.NodeAllocation[nodeID])
    IN  IF proposed.isNil THEN MkSlice(<<>>) ELSE proposed

\* a faulty variant: a failed lookup is tried once more
ProposedAllocs_Retry(nodeID) ==
    /\ \E first \in AllocsByNode(state, nodeID), second \in AllocsByNode(state, nodeID) :
          LET res == IF first.err # NoError THEN second ELSE first
          IN  last' = [op |-> "ProposedAllocs", node |-> nodeID,
                       lookups |-> IF first.err # NoError THEN <<first, second>>
                                   ELSE <<first>>,
                       ret |-> IF res.err # NoError THEN NilSlice
                               ELSE Proposed(res.allocs, nodeID),
                       err |-> res.err]
    /\ UNCHANGED <<ctx, tracker, history, peer>>

\* a faulty variant: the evictions that were applied are taken off the plan
ProposedAllocs_ConsumesUpdates(nodeID) ==
    /\ \E res \in AllocsByNode(state, nodeID) :
          last' = [op |-> "ProposedAllocs", node |-> nodeID,
                   lookups |-> <<res>>,
                   ret |-> IF res.err # NoError THEN NilSlice
                           ELSE Proposed(res.allocs, nodeID),
                   err |-> res.err]
    /\ plan' = [plan EXCEPT !.NodeUpdate[nodeID] = <<>>]
    /\ UNCHANGED <<state, metrics, reCache, constraintCache, eligibility, nextRef,
                   tracker, history, peer>>

\* a faulty variant: the plan is read as it was when the context was made
ProposedAllocs_ConstructionPlan(nodeID) ==
    /\ \E res \in AllocsByNode(state, nodeID) :
          last' = [op |-> "ProposedAllocs", node |-> nodeID,
                   lookups |-> <<res>>,
                   ret |-> IF res.err # NoError THEN NilSlice
                           ELSE LET kept == FilterTerminalAllocs(res.allocs)
                                IN  IF kept.isNil THEN MkSlice(<<>>) ELSE kept,
                   err |-> res.err]
    /\ UNCHANGED <<ctx, tracker, history, peer>>

\* lookups: the outcomes of the AllocsByNode calls this call made, in order
ProposedAllocs(nodeID) ==
    /\ \E res \in AllocsByNode(state, nodeID) :
          last' = [op |-> "ProposedAllocs", node |-> nodeID,
                   lookups |-> <<res>>,
                   ret |-> IF res.err # NoError THEN NilSlice
                           ELSE Proposed(res.allocs, nodeID),
                   err |-> res.err]
    /\ UNCHANGED <<ctx, tracker, history, peer>>

\* a faulty variant: one tracker for the whole process, shared by all contexts
Eligibility_ProcessWide ==
    /\ IF eligibility = Nil
       THEN /\ IF peer.eligibility # Nil
               THEN /\ eligibility' = peer.eligibility
                    /\ nextRef' = nextRef
               ELSE /\ nextRef <= MaxRefs
                    /\ eligibility' = nextRef
                    /\ nextRef' = nextRef + 1
            /\ NewEvalEligibility
            /\ jobCalls' = EmptyMap
            /\ tgCalls' = EmptyMap
       ELSE UNCHANGED <<eligibility, nextRef, tracker, history>>
    /\ last' = [op |-> "Eligibility", ret |-> eligibility', created |-> eligibility = Nil]
    /\ UNCHANGED <<state, plan, metrics, reCache, constraintCache, peer>>

Eligibility ==
    /\ IF eligibility = Nil
       THEN /\ nextRef <= MaxRefs
            /\ eligibility' = nextRef
            /\ nextRef' = nextRef + 1
            /\ NewEvalEligibility
            /\ jobCalls' = EmptyMap
            /\ tgCalls' = EmptyMap
       ELSE UNCHANGED <<eligibility, nextRef, tracker, history>>
    /\ last' = [op |-> "Eligibility", ret |-> eligibility', created |-> eligibility = Nil]
    /\ UNCHANGED <<state, plan, metrics, reCache, constraintCache, peer>>

\* a faulty variant: the map is made on every call, not only when it is nil
RegexpCache_AlwaysNew ==
    /\ nextRef <= MaxRefs
    /\ reCache' = [ref |-> nextRef, entries |-> EmptyMap]
    /\ nextRef' = nextRef + 1
    /\ last' = [op |-> "RegexpCache", ret |-> reCache'.ref]
    /\ UNCHANGED <<state, plan, metrics, constraintCache, eligibility, tracker, history, peer>>

RegexpCache ==
    /\ IF reCache.ref = Nil
       THEN /\ nextRef <= MaxRefs
            /\ reCache' = [ref |-> nextRef, entries |-> EmptyMap]
            /\ nextRef' = nextRef + 1
       ELSE UNCHANGED <<reCache, nextRef>>
    /\ last' = [op |-> "RegexpCache", ret |-> reCache'.ref]
    /\ UNCHANGED <<state, plan, metrics, constraintCache, eligibility, tracker, history, peer>>

ConstraintCache ==
    /\ IF constraintCache.ref = Nil
       THEN /\ nextRef <= MaxRefs
            /\ constraintCache' = [ref |-> nextRef, entries |-> EmptyMap]
            /\ nextRef' = nextRef + 1
       ELSE UNCHANGED <<constraintCache, nextRef>>
    /\ last' = [op |-> "ConstraintCache", ret |-> constraintCache'.ref]
    /\ UNCHANGED <<state, plan, metrics, reCache, eligibility, tracker, history, peer>>

----------------------------------------------------------------------------
(* The same accessors called on the second context *)

\* EvalContext.Eligibility on the second context
PeerEligibility ==
    /\ IF peer.eligibility = Nil
       THEN /\ nextRef <= MaxRefs
            /\ peer' = [peer EXCEPT !.eligibility = nextRef]
            /\ nextRef' = nextRef + 1
       ELSE UNCHANGED <<peer, nextRef>>
    /\ last' = [op |-> "PeerEligibility", ret |-> peer'.eligibility,
                created |-> peer.eligibility = Nil]
    /\ UNCHANGED <<state, plan, metrics, reCache, constraintCache, eligibility,
                   tracker, history>>

\* EvalCache.RegexpCache on the second context
PeerRegexpCache ==
    /\ IF peer.reCache.ref = Nil
       THEN /\ nextRef <= MaxRefs
            /\ peer' = [peer EXCEPT !.reCache = [ref |-> nextRef, entries |-> EmptyMap]]
            /\ nextRef' = nextRef + 1
       ELSE UNCHANGED <<peer, nextRef>>
    /\ last' = [op |-> "PeerRegexpCache", ret |-> peer'.reCache.ref,
                created |-> peer.reCache.ref = Nil]
    /\ UNCHANGED <<state, plan, metrics, reCache, constraintCache, eligibility,
                   tracker, history>>

----------------------------------------------------------------------------
(* The placement algorithm: the caller that writes the plan, the metrics and
   the cache entries through what the context hands out *)

\* Plan.AppendUpdate: the allocation to evict or stop joins NodeUpdate[node]
AppendUpdate(nodeID, id) ==
    /\ PlanSize(plan) < MaxPlan
    /\ plan' = [plan EXCEPT !.NodeUpdate[nodeID] = Append(@, Alloc(id, TRUE))]
    /\ last' = [op |-> "AppendUpdate"]
    /\ UNCHANGED <<state, metrics, reCache, constraintCache, eligibility, nextRef,
                   tracker, history, peer>>

\* Plan.AppendAlloc: the new placement joins NodeAllocation[node]
AppendAlloc(nodeID, id) ==
    /\ PlanSize(plan) < MaxPlan
    /\ plan' = [plan EXCEPT !.NodeAllocation[nodeID] = Append(@, Alloc(id, FALSE))]
    /\ last' = [op |-> "AppendAlloc"]
    /\ UNCHANGED <<state, metrics, reCache, constraintCache, eligibility, nextRef,
                   tracker, history, peer>>

\* Plan.PopUpdate: the caller withdraws the latest stop recorded for the node
PopUpdate(nodeID) ==
    /\ Len(plan.NodeUpdate[nodeID]) > 0
    /\ plan' = [plan EXCEPT !.NodeUpdate[nodeID] = SubSeq(@, 1, Len(@) - 1)]
    /\ last' = [op |-> "PopUpdate"]
    /\ UNCHANGED <<state, metrics, reCache, constraintCache, eligibility, nextRef,
                   tracker, history, peer>>

\* the caller withdraws the latest placement recorded for the node
PopAlloc(nodeID) ==
    /\ Len(plan.NodeAllocation[nodeID]) > 0
    /\ plan' = [plan EXCEPT !.NodeAllocation[nodeID] = SubSeq(@, 1, Len(@) - 1)]
    /\ last' = [op |-> "PopAlloc"]
    /\ UNCHANGED <<state, metrics, reCache, constraintCache, eligibility, nextRef,
                   tracker, history, peer>>

\* AllocMetric.EvaluateNode through Metrics()
EvaluateNode ==
    /\ metrics.NodesEvaluated < MaxMetric
    /\ metrics' = [metrics EXCEPT !.NodesEvaluated = @ + 1]
    /\ last' = [op |-> "EvaluateNode"]
    /\ UNCHANGED <<state, plan, reCache, constraintCache, eligibility, nextRef,
                   tracker, history, peer>>

\* the caller found no compiled regexp under key: it compiles and inserts one
\* into the map RegexpCache() gave it
PutRegexp(key) ==
    /\ reCache.ref # Nil
    /\ key \notin DOMAIN reCache.entries
    /\ reCache' = [reCache EXCEPT !.entries = MapPut(@, key, <<"regexp", key>>)]
    /\ last' = [op |-> "PutRegexp"]
    /\ UNCHANGED <<state, plan, metrics, constraintCache, eligibility, nextRef,
                   tracker, history, peer>>

\* the caller of the second context inserts into the map it was given
PeerPutRegexp(key) ==
    /\ peer.reCache.ref # Nil
    /\ key \notin DOMAIN peer.reCache.entries
    /\ peer' = [peer EXCEPT !.reCache.entries = MapPut(@, key, <<"regexp", key>>)]
    /\ last' = [op |-> "PeerPutRegexp"]
    /\ UNCHANGED <<state, plan, metrics, reCache, constraintCache, eligibility, nextRef,
                   tracker, history>>

\* the same for a parsed version constraint and the map of ConstraintCache()
PutConstraint(key) ==
    /\ constraintCache.ref # Nil
    /\ key \notin DOMAIN constraintCache.entries
    /\ constraintCache' =
          [constraintCache EXCEPT !.entries = MapPut(@, key, <<"constraints", key>>)]
    /\ last' = [op |-> "PutConstraint"]
    /\ UNCHANGED <<state, plan, metrics, reCache, eligibility, nextRef,
                   tracker, history, peer>>

----------------------------------------------------------------------------
(* Spec: one context whose tracker is driven with every job, class and group *)

\* a cluster state that holds no allocation
EmptyState == [id \in {ExistingIDs[i] : i \in 1..Len(ExistingIDs)} |->
                  [node |-> "none", terminal |-> FALSE]]

Init == NewEvalContext(EmptyState, EmptyPlan)

DoSetJob == \E j \in Jobs : SetJob(j)

\* the caller records a verdict: one more, or one that is recorded already
DoSetJobEligibility ==
    \E eligible \in BOOLEAN, class \in Classes :
        /\ class \in DOMAIN job \/ Entries < MaxEntries
        /\ SetJobEligibility(eligible, class)

DoSetTaskGroupEligibility ==
    \E eligible \in BOOLEAN, tg \in GroupNames, class \in Classes :
        /\ (tg \in DOMAIN taskGroups /\ class \in DOMAIN taskGroups[tg])
              \/ Entries < MaxEntries
        /\ SetTaskGroupEligibility(eligible, tg, class)

Next ==
    \/ Eligibility
    \/ Reset
    \/ DoSetJob
    \/ DoSetJobEligibility
    \/ DoSetTaskGroupEligibility

Spec == Init /\ [][Next]_vars

----------------------------------------------------------------------------
(* SpecClasses: the tracker driven with verdicts only, over more classes *)

\* classes 0..MaxPoolClass, at most MaxPoolEntries verdicts recorded
MaxPoolClass == 3
MaxPoolEntries == 3

PoolSetJobEligibility ==
    \E eligible \in BOOLEAN, class \in 0..MaxPoolClass :
        /\ class \in DOMAIN job \/ Entries < MaxPoolEntries
        /\ SetJobEligibility(eligible, class)

PoolSetTaskGroupEligibility ==
    \E eligible \in BOOLEAN, tg \in GroupNames, class \in 0..MaxPoolClass :
        /\ (tg \in DOMAIN taskGroups /\ class \in DOMAIN taskGroups[tg])
              \/ Entries < MaxPoolEntries
        /\ SetTaskGroupEligibility(eligible, tg, class)

NextClasses ==
    \/ Eligibility
    \/ PoolSetJobEligibility
    \/ PoolSetTaskGroupEligibility

SpecClasses == Init /\ [][NextClasses]_vars

----------------------------------------------------------------------------
(* SpecAllocs: one context over every cluster state, its plan being written *)

InitAllocs == \E s \in States : NewEvalContext(s, EmptyPlan)

DoSetState == \E s \in States : SetState(s)

DoProposedAllocs == \E nodeID \in Nodes : ProposedAllocs(nodeID)

DoAppendUpdate == \E nodeID \in Nodes, id \in AllocIDs : AppendUpdate(nodeID, id)

DoAppendAlloc == \E nodeID \in Nodes, id \in AllocIDs : AppendAlloc(nodeID, id)

DoPopUpdate == \E nodeID \in Nodes : PopUpdate(nodeID)

DoPopAlloc == \E nodeID \in Nodes : PopAlloc(nodeID)

NextAllocs ==
    \/ DoSetState
    \/ DoProposedAllocs
    \/ DoAppendUpdate
    \/ DoAppendAlloc
    \/ DoPopUpdate
    \/ DoPopAlloc
    \/ EvaluateNode
    \/ Reset

SpecAllocs == InitAllocs /\ [][NextAllocs]_vars

----------------------------------------------------------------------------
(* SpecCtx: one context with its metrics, caches and tracker all in use *)

RegexpKeys == {"^v[0-9]+$"}
ConstraintKeys == {">= 1.2"}

\* a state with a running and a terminal allocation on n1
BusyState == [EmptyState EXCEPT !["a1"] = [node |-> "n1", terminal |-> FALSE],
                               !["a2"] = [node |-> "n1", terminal |-> TRUE]]

\* a plan that stops a1 on n1 and places a3 there
BusyPlan == [EmptyPlan EXCEPT !.NodeUpdate["n1"] = <<Alloc("a1", TRUE)>>,
                              !.NodeAllocation["n1"] = <<Alloc("a3", FALSE)>>]

InitCtx == \E s \in {EmptyState, BusyState}, p \in {EmptyPlan, BusyPlan} :
              NewEvalContext(s, p)

CtxSetState == \E s \in {EmptyState, BusyState} : SetState(s)

CtxProposedAllocs == ProposedAllocs("n1")

CtxPutRegexp == \E key \in RegexpKeys : PutRegexp(key)

CtxPutConstraint == \E key \in ConstraintKeys : PutConstraint(key)

\* a job with one task group, "web"
CtxSetJob == \E j \in {x \in Jobs : Len(x.TaskGroups) = 1} : SetJob(j)

CtxSetJobEligibility == \E eligible \in BOOLEAN : SetJobEligibility(eligible, 1)

CtxSetTaskGroupEligibility ==
    \E eligible \in BOOLEAN : SetTaskGroupEligibility(eligible, "web", 1)

NextCtx ==
    \/ Reset
    \/ EvaluateNode
    \/ Eligibility
    \/ RegexpCache
    \/ ConstraintCache
    \/ CtxPutRegexp
    \/ CtxPutConstraint
    \/ CtxSetState
    \/ CtxProposedAllocs
    \/ CtxSetJob
    \/ CtxSetJobEligibility
    \/ CtxSetTaskGroupEligibility

SpecCtx == InitCtx /\ [][NextCtx]_vars

----------------------------------------------------------------------------
(* SpecFlags: one tracker that is given every job, again and again, between
   verdicts for one class at the job and at each task group *)

FlagsSetTaskGroupEligibility ==
    \E eligible \in BOOLEAN, tg \in GroupNames : SetTaskGroupEligibility(eligible, tg, 1)

NextFlags ==
    \/ Eligibility
    \/ DoSetJob
    \/ CtxSetJobEligibility
    \/ FlagsSetTaskGroupEligibility

SpecFlags == Init /\ [][NextFlags]_vars

----------------------------------------------------------------------------
(* SpecPeers: two contexts of one process, each with its own lazily made
   tracker and caches *)

InitPeers == NewEvalContext(BusyState, BusyPlan)

PeersPutRegexp == \E key \in RegexpKeys : PeerPutRegexp(key)

NextPeers ==
    \/ Eligibility
    \/ RegexpCache
    \/ ConstraintCache
    \/ PeerEligibility
    \/ PeerRegexpCache
    \/ Reset
    \/ CtxSetState
    \/ CtxProposedAllocs
    \/ CtxPutRegexp
    \/ CtxPutConstraint
    \/ PeersPutRegexp
    \/ CtxSetJobEligibility

SpecPeers == InitPeers /\ [][NextPeers]_vars

----------------------------------------------------------------------------
(* What the claims speak of, stated apart from the code's own computation *)

Verdict(eligible) ==
    IF eligible THEN EvalComputedClassEligible ELSE EvalComputedClassIneligible

HasEscaping(constraints) ==
    \E i \in 1..Len(constraints) : Escapes(constraints[i])

\* the union of a group's own constraints and all its tasks' constraints
\* contains an escaping constraint
GroupHasEscaping(tg) ==
    \/ HasEscaping(tg.Constraints)
    \/ \E t \in 1..Len(tg.Tasks) : HasEscaping(tg.Tasks[t].Constraints)

NonZero == Classes \ {0}

----------------------------------------------------------------------------
(* Claims about the eligibility tracker, under Spec *)

\* C2: JobStatus(0) returns Escaped in every reachable tracker state, whatever
\* SetJob, SetJobEligibility(_, 0), SetTaskGroupEligibility and Reset calls
\* came before.
C2_JobStatusZeroEscaped ==
    JobStatus(0) = EvalComputedClassEscaped

\* a verdict was recorded for class 0 at job scope on a job that has not escaped
C2_Witness ==
    /\ 0 \in DOMAIN jobCalls /\ jobCalls[0]
    /\ ~jobEscaped
    /\ last.op = "Reset"

\* C3: once SetJob was given a job whose top-level constraints contain an
\* escaping constraint, HasEscaped() is true and JobStatus(c) is Escaped for
\* every class c, also after later SetJobEligibility(true/false, c) calls.
\* The first conjunct is the state right after such a SetJob, the second says
\* that no SetJobEligibility step ends it.
C3_EscapedJobStaysEscaped ==
    /\ [] ((last.op = "SetJob" /\ HasEscaping(last.job.Constraints))
             => (HasEscaped /\ \A c \in Classes : JobStatus(c) = EvalComputedClassEscaped))
    /\ [][ (last'.op = "SetJobEligibility"
              /\ HasEscaped /\ \A c \in Classes : JobStatus(c) = EvalComputedClassEscaped)
             => (HasEscaped' /\ \A c \in Classes : JobStatus(c)' = EvalComputedClassEscaped) ]_vars

\* SetJobEligibility(true, 1) came after SetJob of an escaping job
C3_Witness ==
    /\ last.op = "SetJobEligibility" /\ last.eligible /\ last.class = 1
    /\ 1 \in DOMAIN job /\ job[1] = EvalComputedClassEligible
    /\ jobEscaped
    /\ JobStatus(1) = EvalComputedClassEscaped

\* C4: while the job-level escaped flag is not set, for every class c other
\* than 0 JobStatus(c) is the verdict of the latest SetJobEligibility(_, c)
\* call (Eligible for true, Ineligible for false), and Unknown if there was no
\* such call.
C4_JobStatusLatestVerdict ==
    ~jobEscaped =>
        \A c \in NonZero :
            JobStatus(c) = IF c \in DOMAIN jobCalls THEN Verdict(jobCalls[c])
                           ELSE EvalComputedClassUnknown

\* a call has just replaced the verdict of class 1; class 2 was never set
C4_Witness ==
    /\ ~jobEscaped
    /\ last.op = "SetJobEligibility" /\ last.class = 1 /\ last.replaced
    /\ JobStatus(1) = Verdict(last.eligible)
    /\ 2 \notin DOMAIN jobCalls
    /\ JobStatus(2) = EvalComputedClassUnknown

\* C5: TaskGroupStatus(g, c) is Escaped if c is 0; otherwise Escaped if group
\* g's escaped flag is set; otherwise the verdict of the latest
\* SetTaskGroupEligibility(_, g, c) call; otherwise (no such call, also for a
\* group no SetJob named) Unknown.
C5_TaskGroupStatusCases ==
    \A g \in GroupNames, c \in Classes :
        TaskGroupStatus(g, c) =
            IF c = 0 THEN EvalComputedClassEscaped
            ELSE IF g \in DOMAIN tgEscapedConstraints /\ tgEscapedConstraints[g]
                 THEN EvalComputedClassEscaped
            ELSE IF <<g, c>> \in DOMAIN tgCalls THEN Verdict(tgCalls[<<g, c>>])
            ELSE EvalComputedClassUnknown

\* group "web" has escaped and holds a verdict; group "db" was named by no
\* SetJob, holds a replaced verdict for class 1 and none for class 2
C5_Witness ==
    /\ "web" \in DOMAIN tgEscapedConstraints /\ tgEscapedConstraints["web"]
    /\ <<"web", 1>> \in DOMAIN tgCalls
    /\ TaskGroupStatus("web", 1) = EvalComputedClassEscaped
    /\ "db" \notin DOMAIN tgEscapedConstraints
    /\ last.op = "SetTaskGroupEligibility" /\ last.tg = "db" /\ last.class = 1
    /\ last.replaced
    /\ TaskGroupStatus("db", 1) = Verdict(last.eligible)
    /\ TaskGroupStatus("db", 2) = EvalComputedClassUnknown

\* what one scope holds for a class: the recorded feasibility, or Unknown
Recorded(m, c) == IF c \in DOMAIN m THEN m[c] ELSE EvalComputedClassUnknown

RecordedIn(tgs, g, c) == IF g \in DOMAIN tgs THEN Recorded(tgs[g], c)
                         ELSE EvalComputedClassUnknown

\* C6: SetTaskGroupEligibility(_, g, c) changes only the entry (g, c): every
\* other TaskGroupStatus(g2, c2), every JobStatus(c2) and all the escaped flags
\* stay as they were; SetJobEligibility(_, c) changes only the job-scope entry
\* for c: every TaskGroupStatus result, JobStatus of every other class and all
\* the escaped flags stay as they were.
C6_ScopesIndependent ==
    [][ /\ last'.op = "SetTaskGroupEligibility" =>
            /\ \A g2 \in GroupNames, c2 \in Classes :
                  <<g2, c2>> # <<last'.tg, last'.class>> =>
                      /\ TaskGroupStatus(g2, c2)' = TaskGroupStatus(g2, c2)
                      /\ RecordedIn(taskGroups', g2, c2) = RecordedIn(taskGroups, g2, c2)
            /\ \A c2 \in Classes :
                  JobStatus(c2)' = JobStatus(c2) /\ Recorded(job', c2) = Recorded(job, c2)
            /\ jobEscaped' = jobEscaped
            /\ tgEscapedConstraints' = tgEscapedConstraints
        /\ last'.op = "SetJobEligibility" =>
            /\ \A g2 \in GroupNames, c2 \in Classes :
                  /\ TaskGroupStatus(g2, c2)' = TaskGroupStatus(g2, c2)
                  /\ RecordedIn(taskGroups', g2, c2) = RecordedIn(taskGroups, g2, c2)
            /\ \A c2 \in Classes \ {last'.class} :
                  JobStatus(c2)' = JobStatus(c2) /\ Recorded(job', c2) = Recorded(job, c2)
            /\ jobEscaped' = jobEscaped
            /\ tgEscapedConstraints' = tgEscapedConstraints ]_vars

\* class 1 was set eligible for "web" while "db" holds class 1 ineligible
C6_Witness ==
    /\ last.op = "SetTaskGroupEligibility" /\ last.tg = "web" /\ last.class = 1
    /\ last.eligible
    /\ ~HasEscaped
    /\ TaskGroupStatus("web", 1) = EvalComputedClassEligible
    /\ TaskGroupStatus("db", 1) = EvalComputedClassIneligible

\* C7: HasEscaped() is false on a fresh tracker; after SetJob(job) on a fresh
\* tracker it is true exactly if the job's top-level constraints contain an
\* escaping constraint or, for some task group of the job, the union of the
\* group's own and all its tasks' constraints does.
C7_HasEscapedAfterSetJob ==
    /\ (last.op = "Eligibility" /\ last.created) => ~HasEscaped
    /\ (last.op = "SetJob" /\ last.fresh) =>
          (HasEscaped <=>
              \/ HasEscaping(last.job.Constraints)
              \/ \E i \in 1..Len(last.job.TaskGroups) :
                    GroupHasEscaping(last.job.TaskGroups[i]))

\* only a task of the second group of the job has an escaping constraint
C7_Witness ==
    /\ last.op = "SetJob" /\ last.fresh
    /\ ~HasEscaping(last.job.Constraints)
    /\ Len(last.job.TaskGroups) = 2
    /\ ~GroupHasEscaping(last.job.TaskGroups[1])
    /\ ~HasEscaping(last.job.TaskGroups[2].Constraints)
    /\ GroupHasEscaping(last.job.TaskGroups[2])
    /\ HasEscaped

----------------------------------------------------------------------------
(* Claims about GetClasses, under SpecClasses *)

Range(seq) == {seq[i] : i \in 1..Len(seq)}

\* the classes whose current verdict, in the job scope or in some task-group
\* scope, is the one of a SetXEligibility(eligible, ...) call
ClassesRecorded(eligible) ==
    {c \in DOMAIN jobCalls : jobCalls[c] = eligible}
      \cup {k[2] : k \in {x \in DOMAIN tgCalls : tgCalls[x] = eligible}}

\* C8: whatever SetJobEligibility and SetTaskGroupEligibility calls came
\* before, the members of GetClasses()'s first slice are exactly the classes
\* whose current verdict is Eligible in the job scope or in some task-group
\* scope, and the members of its second slice exactly those whose current
\* verdict is Ineligible in some scope.
C8_GetClassesMembers ==
    \A r \in GetClasses :
        /\ Range(r.elig) = ClassesRecorded(TRUE)
        /\ Range(r.inelig) = ClassesRecorded(FALSE)

\* job class 1 eligible, job class 2 ineligible, "web" class 3 eligible:
\* eligible {1, 3}, ineligible {2}
C8_Witness ==
    /\ DOMAIN jobCalls = {1, 2} /\ jobCalls[1] /\ ~jobCalls[2]
    /\ DOMAIN tgCalls = {<<"web", 3>>} /\ tgCalls[<<"web", 3>>]
    /\ GetClasses = {[elig |-> <<1, 3>>, inelig |-> <<2>>]}

\* C9 as claimed: in each of the two slices GetClasses() returns, a class
\* appears at most once.
C9_GetClassesNoDuplicates ==
    \A r \in GetClasses :
        /\ Cardinality(Range(r.elig)) = Len(r.elig)
        /\ Cardinality(Range(r.inelig)) = Len(r.inelig)

----------------------------------------------------------------------------
(* Claims about ProposedAllocs, under SpecAllocs *)

BagOfSeq(seq) == [x \in Range(seq) |-> Cardinality({i \in 1..Len(seq) : seq[i] = x})]

\* the allocations the cluster state s reports for node n
ReportedFor(s, n) == {Alloc(id, s[id].terminal) : id \in {x \in DOMAIN s : s[x].node = n}}

\* those of them that are not terminal and that NodeUpdate[n] does not list
Remaining(s, p, n) ==
    {a \in ReportedFor(s, n) :
        /\ ~a.Terminal
        /\ \A i \in 1..Len(p.NodeUpdate[n]) : p.NodeUpdate[n][i].ID # a.ID}

\* C1: a successful ProposedAllocs(N) returns, as a collection: the
\* allocations the cluster state reports for N that are not terminal, minus
\* those NodeUpdate[N] lists, plus every allocation in NodeAllocation[N].
C1_ProposedAllocsResult ==
    (last.op = "ProposedAllocs" /\ last.err = NoError) =>
        BagOfSeq(last.ret.elems) =
            SetToBag(Remaining(state, plan, last.node))
              (+) BagOfSeq(plan.NodeAllocation[last.node])

\* state {a1 terminal, a2 running} on the node, NodeUpdate = {a2},
\* NodeAllocation = {a3}: the result is exactly {a3}
C1_Witness ==
    /\ last.op = "ProposedAllocs" /\ last.err = NoError
    /\ state["a1"] = [node |-> last.node, terminal |-> TRUE]
    /\ state["a2"] = [node |-> last.node, terminal |-> FALSE]
    /\ plan.NodeUpdate[last.node] = <<Alloc("a2", TRUE)>>
    /\ plan.NodeAllocation[last.node] = <<Alloc("a3", FALSE)>>
    /\ last.ret.elems = <<Alloc("a3", FALSE)>>

----------------------------------------------------------------------------
(* Claims about the context, under SpecCtx *)

\* C10: Reset() replaces only the metrics record: right after it Metrics() is
\* an empty record, as in a newly constructed context (so a second Reset
\* changes nothing), while the tracker reference with its verdicts and escaped
\* flags, both cache maps with their entries, State() and Plan() are as before.
C10_ResetOnlyMetrics ==
    [][ last'.op = "Reset" =>
          /\ metrics'.NodesEvaluated = 0 /\ metrics'.NodesFiltered = 0
          /\ eligibility' = eligibility
          /\ tracker' = tracker
          /\ reCache' = reCache
          /\ constraintCache' = constraintCache
          /\ state' = state
          /\ plan' = plan ]_vars

\* Reset discarded a record that had counted a node; the tracker holds a
\* verdict and an escaped flag, both caches hold an entry
C10_Witness ==
    /\ last.op = "Reset" /\ last.discarded.NodesEvaluated > 0
    /\ metrics = NewAllocMetric
    /\ eligibility # Nil /\ 1 \in DOMAIN job /\ jobEscaped
    /\ "web" \in DOMAIN taskGroups
    /\ reCache.entries # EmptyMap /\ constraintCache.entries # EmptyMap
    /\ plan = BusyPlan /\ state = BusyState

\* C11: ProposedAllocs(N) returns an error exactly when its AllocsByNode
\* lookup failed: it made one lookup, the error it returns is the error of
\* that lookup, it returns no allocation sequence with it, and the call left
\* plan, metrics, caches and tracker as they were.
C11_LookupErrorPassedThrough ==
    [][ last'.op = "ProposedAllocs" =>
          /\ Len(last'.lookups) = 1
          /\ last'.err = last'.lookups[1].err
          /\ (last'.err # NoError) <=> (last'.lookups[1].err \in StateErrors)
          /\ last'.err # NoError =>
                /\ last'.ret = NilSlice
                /\ plan' = plan
                /\ metrics' = metrics
                /\ reCache' = reCache
                /\ constraintCache' = constraintCache
                /\ eligibility' = eligibility
                /\ tracker' = tracker ]_vars

\* a lookup failed on a node that has allocations and plan entries, in a
\* context whose caches and tracker hold entries
C11_Witness ==
    /\ last.op = "ProposedAllocs" /\ last.err = "state: index not found"
    /\ last.lookups = <<[allocs |-> NilSlice, err |-> "state: index not found"]>>
    /\ last.ret = NilSlice
    /\ state = BusyState /\ plan = BusyPlan
    /\ metrics.NodesEvaluated > 0
    /\ reCache.entries # EmptyMap /\ constraintCache.entries # EmptyMap
    /\ eligibility # Nil /\ 1 \in DOMAIN job

\* C12: a successful ProposedAllocs(N) returns a sequence that is present,
\* never nil; the sequence is empty when the state reports no allocation for
\* N and the plan has no entry for N, and also when every allocation reported
\* for N is terminal or listed in NodeUpdate[N] and NodeAllocation[N] is empty.
C12_ResultNeverNil ==
    (last.op = "ProposedAllocs" /\ last.err = NoError) =>
        /\ ~last.ret.isNil
        /\ (Remaining(state, plan, last.node) = {}
              /\ plan.NodeAllocation[last.node] = <<>>) => last.ret.elems = <<>>

\* the lookup gave nil for a node with nothing on it and nothing planned
C12_Witness ==
    /\ last.op = "ProposedAllocs" /\ last.err = NoError
    /\ last.lookups[1].allocs.isNil
    /\ ReportedFor(state, last.node) = {}
    /\ plan.NodeUpdate[last.node] = <<>> /\ plan.NodeAllocation[last.node] = <<>>
    /\ last.ret = MkSlice(<<>>)

\* C13: every successful ProposedAllocs(N) result is computed from the state
\* and the plan as they are when the call is made, whatever SetState, Reset,
\* ProposedAllocs calls and additions to or removals from NodeUpdate[N] and
\* NodeAllocation[N] came before it.
C13_ResultFromCurrentPlanAndState ==
    [][ (last'.op = "ProposedAllocs" /\ last'.err = NoError) =>
          BagOfSeq(last'.ret.elems) =
              SetToBag(Remaining(state, plan, last'.node))
                (+) BagOfSeq(plan.NodeAllocation[last'.node]) ]_vars

\* the plan was changed after the context was made (it stops a2 and places
\* a3 on the node) and the state runs a1 and a2 there: the result is {a1, a3}
C13_Witness ==
    /\ last.op = "ProposedAllocs" /\ last.err = NoError
    /\ state["a1"] = [node |-> last.node, terminal |-> FALSE]
    /\ state["a2"] = [node |-> last.node, terminal |-> FALSE]
    /\ plan.NodeUpdate[last.node] = <<Alloc("a2", TRUE)>>
    /\ plan.NodeAllocation[last.node] = <<Alloc("a3", FALSE)>>
    /\ last.ret.elems = <<Alloc("a1", FALSE), Alloc("a3", FALSE)>>

\* C14: ProposedAllocs(N) changes nothing: plan, cluster state, metrics,
\* caches and tracker are after the call what they were before it; and a
\* successful call that directly follows a successful call for the same N
\* returns the same collection.
C14_ProposedAllocsPureRead ==
    [][ last'.op = "ProposedAllocs" =>
          /\ plan' = plan
          /\ state' = state
          /\ metrics' = metrics
          /\ reCache' = reCache
          /\ constraintCache' = constraintCache
          /\ eligibility' = eligibility
          /\ tracker' = tracker
          /\ (/\ last.op = "ProposedAllocs" /\ last.node = last'.node
              /\ last.err = NoError /\ last'.err = NoError)
                => BagOfSeq(last'.ret.elems) = BagOfSeq(last.ret.elems) ]_vars

\* a successful call on a node where the plan stops one allocation and
\* places another, in a context whose caches and tracker hold entries
C14_Witness ==
    /\ last.op = "ProposedAllocs" /\ last.err = NoError
    /\ state = BusyState /\ plan = BusyPlan
    /\ last.ret.elems = <<Alloc("a3", FALSE)>>
    /\ metrics.NodesEvaluated > 0
    /\ reCache.entries # EmptyMap /\ constraintCache.entries # EmptyMap
    /\ eligibility # Nil /\ "web" \in DOMAIN taskGroups

\* C15: Eligibility() is a lazy singleton of its context.  The first call
\* makes an empty tracker; once made, the context's tracker reference never
\* changes under any operation, every later call returns that reference and
\* leaves what was written to the tracker in place; and the trackers of two
\* contexts are never the same instance.
C15_EligibilityLazySingleton ==
    [][ /\ (last'.op = "Eligibility" /\ eligibility = Nil) =>
              /\ eligibility' # Nil /\ last'.ret = eligibility'
              /\ job' = EmptyMap /\ taskGroups' = EmptyMap
              /\ ~jobEscaped' /\ tgEscapedConstraints' = EmptyMap
        /\ (last'.op = "Eligibility" /\ eligibility # Nil) =>
              /\ last'.ret = eligibility
              /\ tracker' = tracker
        /\ eligibility # Nil => eligibility' = eligibility
        /\ peer.eligibility # Nil => peer'.eligibility = peer.eligibility
        /\ (eligibility' # Nil /\ peer'.eligibility # Nil) =>
              eligibility' # peer'.eligibility ]_vars

\* a later Eligibility() call returned the tracker that holds a verdict
\* written earlier; the caches were accessed and the second context has a
\* tracker of its own
C15_Witness ==
    /\ last.op = "Eligibility" /\ ~last.created
    /\ last.ret = eligibility
    /\ 1 \in DOMAIN job
    /\ reCache.ref # Nil /\ constraintCache.ref # Nil
    /\ peer.eligibility # Nil /\ peer.eligibility < eligibility

\* C16: RegexpCache() and ConstraintCache() each return the one mapping of
\* their context on every call; the two mappings are different instances and
\* a change to one leaves the other alone; the mapping of another context is
\* a different instance that starts empty; and under every operation a key
\* that is in a mapping stays in it with the value it has.
C16_CachesStable ==
    [][ /\ reCache.ref # Nil => reCache'.ref = reCache.ref
        /\ constraintCache.ref # Nil => constraintCache'.ref = constraintCache.ref
        /\ last'.op = "RegexpCache" =>
              /\ last'.ret = reCache'.ref /\ last'.ret # Nil
              /\ reCache.ref = Nil => reCache'.entries = EmptyMap
        /\ last'.op = "ConstraintCache" =>
              /\ last'.ret = constraintCache'.ref /\ last'.ret # Nil
              /\ constraintCache.ref = Nil => constraintCache'.entries = EmptyMap
        /\ (reCache'.ref # Nil /\ constraintCache'.ref # Nil) =>
              reCache'.ref # constraintCache'.ref
        /\ reCache' # reCache => constraintCache' = constraintCache
        /\ (last'.op = "PeerRegexpCache" /\ peer.reCache.ref = Nil) =>
              peer'.reCache.entries = EmptyMap
        /\ peer'.reCache.ref # Nil =>
              peer'.reCache.ref \notin {reCache'.ref, constraintCache'.ref}
        /\ peer'.reCache # peer.reCache =>
              (reCache' = reCache /\ constraintCache' = constraintCache)
        /\ \A k \in DOMAIN reCache.entries :
              k \in DOMAIN reCache'.entries /\ reCache'.entries[k] = reCache.entries[k]
        /\ \A k \in DOMAIN constraintCache.entries :
              /\ k \in DOMAIN constraintCache'.entries
              /\ constraintCache'.entries[k] = constraintCache.entries[k] ]_vars

\* RegexpCache() returned the mapping that holds the entry inserted earlier;
\* the constraint cache and the mapping of the second context were made
\* later and are empty
C16_Witness ==
    /\ last.op = "RegexpCache" /\ last.ret = reCache.ref
    /\ reCache.entries # EmptyMap
    /\ constraintCache.ref > reCache.ref /\ constraintCache.entries = EmptyMap
    /\ peer.reCache.ref > reCache.ref /\ peer.reCache.entries = EmptyMap
    /\ eligibility # Nil

\* C17: the job map and every task-group map hold only Eligible and
\* Ineligible, and a task-group map exists only for a group that
\* SetTaskGroupEligibility was called for; so JobStatus and TaskGroupStatus
\* return Unknown only for an entry that was never recorded, and Escaped only
\* for class 0 or under an escaped flag.
C17_MapsHoldOnlyVerdicts ==
    /\ \A c \in DOMAIN job :
          job[c] \in {EvalComputedClassEligible, EvalComputedClassIneligible}
    /\ \A g \in DOMAIN taskGroups :
          /\ \A c \in DOMAIN taskGroups[g] :
                taskGroups[g][c] \in {EvalComputedClassEligible,
                                      EvalComputedClassIneligible}
          /\ \E k \in DOMAIN tgCalls : k[1] = g
    /\ \A c \in Classes :
          /\ JobStatus(c) = EvalComputedClassUnknown => c \notin DOMAIN jobCalls
          /\ JobStatus(c) = EvalComputedClassEscaped => (c = 0 \/ jobEscaped)
    /\ \A g \in GroupNames, c \in Classes :
          /\ TaskGroupStatus(g, c) = EvalComputedClassUnknown =>
                <<g, c>> \notin DOMAIN tgCalls
          /\ TaskGroupStatus(g, c) = EvalComputedClassEscaped =>
                (c = 0 \/ (g \in DOMAIN tgEscapedConstraints /\ tgEscapedConstraints[g]))

\* an ineligible verdict at job scope and one at group scope; the other
\* class of the same group map and the other group are still Unknown
C17_Witness ==
    /\ eligibility # Nil /\ ~HasEscaped
    /\ JobStatus(1) = EvalComputedClassIneligible
    /\ TaskGroupStatus("web", 1) = EvalComputedClassIneligible
    /\ TaskGroupStatus("web", 2) = EvalComputedClassUnknown
    /\ "db" \notin DOMAIN taskGroups
    /\ JobStatus(2) = EvalComputedClassUnknown

\* C18: when HasEscaped() is false, no JobStatus(c) and no
\* TaskGroupStatus(g, c) with c # 0 is Escaped; when it is true, the job, or
\* a task group that SetJob recorded, answers Escaped for every class.
C18_HasEscapedAgreesWithStatus ==
    eligibility # Nil =>
      /\ ~HasEscaped =>
            \A c \in NonZero :
                /\ JobStatus(c) # EvalComputedClassEscaped
                /\ \A g \in GroupNames : TaskGroupStatus(g, c) # EvalComputedClassEscaped
      /\ HasEscaped =>
            \/ \A c \in Classes : JobStatus(c) = EvalComputedClassEscaped
            \/ \E g \in DOMAIN tgEscapedConstraints :
                  \A c \in Classes : TaskGroupStatus(g, c) = EvalComputedClassEscaped

\* only the group "web" escapes: its status is Escaped for a class whose
\* verdict is recorded, while the job and "db" still answer from their maps
C18_Witness ==
    /\ eligibility # Nil /\ HasEscaped /\ ~jobEscaped
    /\ "web" \in DOMAIN taskGroups /\ 1 \in DOMAIN taskGroups["web"]
    /\ TaskGroupStatus("web", 1) = EvalComputedClassEscaped
    /\ "db" \in DOMAIN tgEscapedConstraints
    /\ TaskGroupStatus("db", 1) = EvalComputedClassUnknown
    /\ JobStatus(1) = EvalComputedClassEligible

\* C19: SetJob(job) writes the job's escaped flag and the flags of the task
\* groups that job names, nothing else: the recorded verdicts, and with them
\* what GetClasses returns, are unchanged, and the flag of every group that
\* job does not name is what it was.
C19_SetJobWritesOnlyFlags ==
    [][ last'.op = "SetJob" =>
          LET named == {last'.job.TaskGroups[i].Name :
                           i \in 1..Len(last'.job.TaskGroups)}
          IN  /\ job' = job
              /\ taskGroups' = taskGroups
              /\ GetClasses' = GetClasses
              /\ DOMAIN tgEscapedConstraints' = DOMAIN tgEscapedConstraints \cup named
              /\ \A g \in DOMAIN tgEscapedConstraints \ named :
                    tgEscapedConstraints'[g] = tgEscapedConstraints[g] ]_vars

\* a SetJob with a job that has no task group and no escaping constraint,
\* after an earlier job whose group "web" escapes: the flag of "web" still
\* counts, and the verdicts recorded before are still there
C19_Witness ==
    /\ last.op = "SetJob" /\ ~last.fresh
    /\ last.job.TaskGroups = <<>> /\ ~jobEscaped
    /\ "web" \in DOMAIN tgEscapedConstraints /\ tgEscapedConstraints["web"]
    /\ HasEscaped
    /\ TaskGroupStatus("web", 1) = EvalComputedClassEscaped
    /\ 1 \in DOMAIN job

\* C20: when HasEscaped() is false, a class c # 0 is in the eligible
\* collection of GetClasses exactly when JobStatus(c) is Eligible or
\* TaskGroupStatus(g, c) is Eligible for some group g, and in the ineligible
\* collection exactly when one of them is Ineligible.
C20_GetClassesAgreesWithStatus ==
    (eligibility # Nil /\ ~HasEscaped) =>
        \A r \in GetClasses, c \in NonZero :
            /\ c \in Range(r.elig) <=>
                  \/ JobStatus(c) = EvalComputedClassEligible
                  \/ \E g \in GroupNames :
                        TaskGroupStatus(g, c) = EvalComputedClassEligible
            /\ c \in Range(r.inelig) <=>
                  \/ JobStatus(c) = EvalComputedClassIneligible
                  \/ \E g \in GroupNames :
                        TaskGroupStatus(g, c) = EvalComputedClassIneligible

\* a job without escaping constraints was set; class 1 is eligible for the
\* job and class 2 ineligible for the group "web"
C20_Witness ==
    /\ eligibility # Nil /\ ~HasEscaped
    /\ "web" \in DOMAIN tgEscapedConstraints
    /\ JobStatus(1) = EvalComputedClassEligible
    /\ TaskGroupStatus("web", 2) = EvalComputedClassIneligible
    /\ \A r \in GetClasses : r.elig = <<1>> /\ r.inelig = <<2>>

====
